---- MODULE Spec2Model ----
(***************************************************************************)
(* Verification model of the wiki client: the page-tree builder and        *)
(* lookup, the positional line diff of the history view, the tag based     *)
(* request cache of services/api.ts and the session store of authSlice.ts. *)
(***************************************************************************)
EXTENDS Integers, Sequences, FiniteSets, TLC

VARIABLES
  flatPages,   \* SidebarTree: state.pages, the flat list handed to the builder
  treeData,    \* SidebarTree: useState treeData, the forest the builder returned
  treeBuilt,   \* TRUE once setTreeData(buildTreeFromFlat(pages)) has run
  pagesTree,   \* PageViewer: data of useGetPagesQuery, a nested forest
  parentId,    \* PageViewer: page.parent_id of the page on display
  parentPage,  \* PageViewer: the node findPageInTree returned, or null
  rendered,    \* TRUE once parentPage has been computed for this render
  compareText, \* PageHistory: compareVersion.text, the previous text
  selectedText,\* PageHistory: selectedVersion.text, the current text
  diffLines,   \* PageHistory: the records getDiff returned for the modal
  diffShown,   \* TRUE once the comparison has been rendered
  cache,       \* api.queries: the cached query results, by query key
  user,        \* state.auth.user (the id of the loaded user, or null)
  token,       \* state.auth.token
  stored,      \* localStorage 'token'
  loading,     \* state.auth.loading
  error,       \* state.auth.error is set
  requests,    \* requests of the query layer in flight and the last result
  loginInFlight, \* a login thunk awaits its response
  meInFlight,  \* fetchCurrentUser thunks awaiting their response
  effectDue,   \* the [dispatch, user] effect of AppRoutes has yet to run
  editedPage,  \* PageEditor: the id of the page being saved
  serverRev,   \* the revision of that page the server holds
  thunksSent,  \* pagesSlice updatePage thunks the server has not handled yet
  thunksServed,\* revisions carried by the thunks' responses on their way
  mutsSent,    \* api updatePage mutations the server has not handled yet
  mutsServed,  \* responses of api updatePage mutations on their way
  pageQuery,   \* api.queries getPage(editedPage): data held and fetch in flight
  activePage,  \* state.pages.activePage
  recent,      \* localStorage 'recentPages_<key>': the list kept under each key
  location,    \* the page id in the path of the current location, or none
  viewed,      \* PageViewer: page.id of the data its getPage query holds
  visits,      \* navigations made so far
  author,      \* PageCollaborators: page.author.id, none until the page loads
  viewer,      \* PageCollaborators: state.auth.user, its id and its role
  users,       \* PageCollaborators: useState users, the ids of the list fetched
  selectedUserId, \* PageCollaborators: useState selectedUserId, a string
  showAddModal,   \* PageCollaborators: useState showAddModal
  isAdding,    \* PageCollaborators: isLoading of the addCollaborator mutation
  submitted,   \* the user_id of every addCollaborator mutation issued
  pv,          \* PageViewer: the state of its three queries and what it renders
  pc           \* PageCollaborators: the state of its two queries and what it renders

treeVars == <<flatPages, treeData, treeBuilt>>
findVars == <<pagesTree, parentId, parentPage, rendered>>
diffVars == <<compareText, selectedText, diffLines, diffShown>>
cacheVars == <<cache>>
authVars == <<user, token, stored, loading, error, requests, loginInFlight, meInFlight,
              effectDue>>
raceVars == <<editedPage, serverRev, thunksSent, thunksServed, mutsSent, mutsServed,
              pageQuery, activePage>>
recentVars == <<recent, location, viewed, visits>>
collabVars == <<author, viewer, users, selectedUserId, showAddModal, isAdding, submitted>>
viewVars == <<pv, pc>>

vars == <<flatPages, treeData, treeBuilt, pagesTree, parentId, parentPage, rendered,
          compareText, selectedText, diffLines, diffShown, cache,
          user, token, stored, loading, error, requests, loginInFlight, meInFlight,
          effectDue,
          editedPage, serverRev, thunksSent, thunksServed, mutsSent, mutsServed,
          pageQuery, activePage,
          recent, location, viewed, visits,
          author, viewer, users, selectedUserId, showAddModal, isAdding, submitted,
          pv, pc>>

(***************************************************************************)
(* Bounds                                                                  *)
(***************************************************************************)
MaxPages == 3      \* longest flat list given to the builder
MaxId == 3         \* page ids are 1..MaxId
MaxNodes == 3      \* most nodes in a forest handed to findPageInTree
MaxTextLen == 4    \* longest text (in characters) handed to getDiff
MaxArg == 2        \* the query layer is asked about pages 1..MaxArg
MaxToken == 2      \* the server hands out the tokens 1..MaxToken
MaxInFlight == 2   \* most query-layer requests in flight at once
MaxMe == 2         \* most fetchCurrentUser requests in flight at once
MaxCached == 2     \* most query results held in the cache at once
MaxRev == 3        \* the server holds the revisions 1..MaxRev of a page
MaxWrites == 2     \* most updates of one page in flight at once
MaxVisits == 2     \* most navigations of one run
MaxUser == 3       \* the server knows MaxUser users

\* null / undefined / 0: the falsy value of an optional numeric field
NoId == 0

PageIds == 1..MaxId

\* JavaScript truthiness of an id-valued field (`page.parent_id && ...`)
Truthy(v) == v # NoId

(***************************************************************************)
(* Tree builder  (features/sidebar/SidebarTree.tsx)                        *)
(*                                                                         *)
(* A page record is [id, parent_id, title]; the title is the record's      *)
(* position in the list, so two records of one list are never the same     *)
(* object even when their ids collide.  Node objects live in `map`, keyed  *)
(* by id; a children array and the root array hold references to them,     *)
(* i.e. keys of `map`.                                                     *)
(***************************************************************************)
PageRecords(n) ==
  { [id |-> i, parent_id |-> p, title |-> n] : i \in PageIds, p \in {NoId} \cup PageIds }

RECURSIVE FlatLists(_)
FlatLists(n) ==
  IF n = 0 THEN { <<>> }
  ELSE { Append(l, r) : l \in FlatLists(n - 1), r \in PageRecords(n) }

\* Map.prototype.set
MapSet(map, k, v) == [x \in (DOMAIN map) \cup {k} |-> IF x = k THEN v ELSE map[x]]

EmptyMap == [x \in {} |-> <<>>]

\* first forEach: map.set(page.id, { ...page, children: [] })
RECURSIVE setAll(_, _, _)
setAll(pages, i, map) ==
  IF i > Len(pages) THEN map
  ELSE setAll(pages, i + 1,
              MapSet(map, pages[i].id,
                     [id |-> pages[i].id, parent_id |-> pages[i].parent_id,
                      title |-> pages[i].title, children |-> <<>>]))

\* mutant: the else branch is lost, every record is also pushed to roots
attachStep_alsoRoot(acc, page) ==
  IF Truthy(page.parent_id) /\ page.parent_id \in DOMAIN acc.map
  THEN [map |-> [acc.map EXCEPT ![page.parent_id].children = Append(@, page.id)],
        roots |-> Append(acc.roots, page.id)]
  ELSE [map |-> acc.map, roots |-> Append(acc.roots, page.id)]

\* mutant: a record whose parent is not in the list is dropped
attachStep_dropOrphan(acc, page) ==
  IF Truthy(page.parent_id) /\ page.parent_id \in DOMAIN acc.map
  THEN [map |-> [acc.map EXCEPT ![page.parent_id].children = Append(@, page.id)],
        roots |-> acc.roots]
  ELSE IF Truthy(page.parent_id)
       THEN acc
       ELSE [map |-> acc.map, roots |-> Append(acc.roots, page.id)]

\* mutant: children and roots are put in front (unshift) instead of pushed
attachStep_unshift(acc, page) ==
  IF Truthy(page.parent_id) /\ page.parent_id \in DOMAIN acc.map
  THEN [map |-> [acc.map EXCEPT ![page.parent_id].children = <<page.id>> \o @],
        roots |-> acc.roots]
  ELSE [map |-> acc.map, roots |-> <<page.id>> \o acc.roots]

\* body of the second forEach
attachStep(acc, page) ==
  IF Truthy(page.parent_id) /\ page.parent_id \in DOMAIN acc.map
  THEN [map |-> [acc.map EXCEPT ![page.parent_id].children = Append(@, page.id)],
        roots |-> acc.roots]
  ELSE [map |-> acc.map, roots |-> Append(acc.roots, page.id)]

RECURSIVE attachAll(_, _, _)
attachAll(pages, i, acc) ==
  IF i > Len(pages) THEN acc
  ELSE attachAll(pages, i + 1, attachStep(acc, pages[i]))

buildTreeFromFlat(pages) ==
  attachAll(pages, 1, [map |-> setAll(pages, 1, EmptyMap), roots |-> <<>>])

EmptyTree == [map |-> EmptyMap, roots |-> <<>>]

TreeInit ==
  /\ \E n \in 0..MaxPages : flatPages \in FlatLists(n)
  /\ treeData = EmptyTree
  /\ treeBuilt = FALSE

\* buildTree, catch branch: setTreeData(buildTreeFromFlat(pages))
BuildTree ==
  /\ treeData' = buildTreeFromFlat(flatPages)
  /\ treeBuilt' = TRUE
  /\ UNCHANGED flatPages

TreeIdle ==
  /\ flatPages = <<>>
  /\ treeData = EmptyTree
  /\ treeBuilt = FALSE

(***************************************************************************)
(* Tree lookup  (features/wiki/PageViewer.tsx, components/layout/Sidebar)  *)
(*                                                                         *)
(* The forest is the nested value the page-list query delivered: a         *)
(* sequence of nodes, each with an id and an optional children sequence.   *)
(***************************************************************************)
\* the value null, as a node that no page can be (ids are truthy)
NullNode == [id |-> NoId]

Leaves(i) == { [id |-> i], [id |-> i, children |-> <<>>] }

\* every forest with exactly n nodes
RECURSIVE ForestsOfSize(_)
ForestsOfSize(n) ==
  IF n = 0 THEN { <<>> }
  ELSE UNION { UNION { { <<t>> \o rest :
                           t \in IF k = 1 THEN Leaves(i)
                                 ELSE { [id |-> i, children |-> c] : c \in ForestsOfSize(k - 1) },
                           rest \in ForestsOfSize(n - k) }
                       : i \in PageIds }
               : k \in 1..n }

\* node.children && node.children.length > 0
HasChildren(node) == "children" \in DOMAIN node /\ Len(node.children) > 0

\* mutant: the result of the search below a node is returned even when it
\* is null, so later siblings are never visited
RECURSIVE findPageInTree_noBacktrack(_, _)
findPageInTree_noBacktrack(tree, targetId) ==
  IF tree = <<>> THEN NullNode
  ELSE LET node == Head(tree)
       IN IF node.id = targetId THEN node
          ELSE IF HasChildren(node)
               THEN findPageInTree_noBacktrack(node.children, targetId)
               ELSE findPageInTree_noBacktrack(Tail(tree), targetId)

RECURSIVE findPageInTree(_, _)
findPageInTree(tree, targetId) ==
  IF tree = <<>> THEN NullNode
  ELSE LET node == Head(tree)
           found == IF HasChildren(node)
                    THEN findPageInTree(node.children, targetId)
                    ELSE NullNode
       IN IF node.id = targetId THEN node
          ELSE IF found # NullNode THEN found
               ELSE findPageInTree(Tail(tree), targetId)

FindInit ==
  /\ \E n \in 0..MaxNodes : pagesTree \in ForestsOfSize(n)
  /\ parentId \in {NoId} \cup PageIds
  /\ parentPage = NullNode
  /\ rendered = FALSE

FindIdle ==
  /\ pagesTree = <<>>
  /\ parentId = NoId
  /\ parentPage = NullNode
  /\ rendered = FALSE

\* parentPage = page?.parent_id && pagesTree ? findPageInTree(pagesTree, page.parent_id) : null
RenderParent ==
  /\ parentPage' = IF Truthy(parentId) THEN findPageInTree(pagesTree, parentId) ELSE NullNode
  /\ rendered' = TRUE
  /\ UNCHANGED <<pagesTree, parentId>>

(***************************************************************************)
(* Diff engine  (PageHistory, getDiff)                                     *)
(*                                                                         *)
(* A text is a sequence of characters, a line a sequence of characters     *)
(* without the newline; '' is the empty sequence.                          *)
(***************************************************************************)
NL == "\n"

Chars == {"a", "b", NL}

RECURSIVE TextsOfLen(_)
TextsOfLen(n) ==
  IF n = 0 THEN { <<>> }
  ELSE { Append(t, c) : t \in TextsOfLen(n - 1), c \in Chars }

\* String.prototype.split('\n'): acc.lines are the finished lines, acc.cur
\* the line being read
RECURSIVE splitFrom(_, _, _)
splitFrom(text, i, acc) ==
  IF i > Len(text) THEN Append(acc.lines, acc.cur)
  ELSE IF text[i] = NL
       THEN splitFrom(text, i + 1, [lines |-> Append(acc.lines, acc.cur), cur |-> <<>>])
       ELSE splitFrom(text, i + 1, [lines |-> acc.lines, cur |-> Append(acc.cur, text[i])])

split(text) == splitFrom(text, 1, [lines |-> <<>>, cur |-> <<>>])

\* lines[i] || '' with i counted from 1: an index past the end reads
\* undefined, and undefined and '' both give ''
lineOrEmpty(lines, i) ==
  IF i > Len(lines) THEN <<>>
  ELSE IF lines[i] = <<>> THEN <<>> ELSE lines[i]

Max(a, b) == IF a >= b THEN a ELSE b

\* mutant: the guards on the removed and added records are lost
diffStep_noGuard(oldLines, newLines, i) ==
  LET oldLine == lineOrEmpty(oldLines, i)
      newLine == lineOrEmpty(newLines, i)
  IN IF oldLine = newLine
     THEN << [type |-> "unchanged", text |-> oldLine] >>
     ELSE << [type |-> "removed", text |-> oldLine], [type |-> "added", text |-> newLine] >>

\* mutant: an equal pair of empty lines is skipped instead of being
\* reported as unchanged
diffStep_skipEmpty(oldLines, newLines, i) ==
  LET oldLine == lineOrEmpty(oldLines, i)
      newLine == lineOrEmpty(newLines, i)
  IN IF oldLine = newLine
     THEN IF oldLine # <<>> THEN << [type |-> "unchanged", text |-> oldLine] >> ELSE << >>
     ELSE (IF oldLine # <<>> THEN << [type |-> "removed", text |-> oldLine] >> ELSE << >>)
          \o (IF newLine # <<>> THEN << [type |-> "added", text |-> newLine] >> ELSE << >>)

\* mutant: the added record is pushed before the removed one
diffStep_addedFirst(oldLines, newLines, i) ==
  LET oldLine == lineOrEmpty(oldLines, i)
      newLine == lineOrEmpty(newLines, i)
  IN IF oldLine = newLine
     THEN << [type |-> "unchanged", text |-> oldLine] >>
     ELSE (IF newLine # <<>> THEN << [type |-> "added", text |-> newLine] >> ELSE << >>)
          \o (IF oldLine # <<>> THEN << [type |-> "removed", text |-> oldLine] >> ELSE << >>)

\* mutant: an equal pair of lines is reported as added, not as unchanged
diffStep_unchangedAsAdded(oldLines, newLines, i) ==
  LET oldLine == lineOrEmpty(oldLines, i)
      newLine == lineOrEmpty(newLines, i)
  IN IF oldLine = newLine
     THEN IF newLine # <<>> THEN << [type |-> "added", text |-> newLine] >> ELSE << >>
     ELSE (IF oldLine # <<>> THEN << [type |-> "removed", text |-> oldLine] >> ELSE << >>)
          \o (IF newLine # <<>> THEN << [type |-> "added", text |-> newLine] >> ELSE << >>)

\* body of the for loop: the records pushed for index i
diffStep(oldLines, newLines, i) ==
  LET oldLine == lineOrEmpty(oldLines, i)
      newLine == lineOrEmpty(newLines, i)
  IN IF oldLine = newLine
     THEN << [type |-> "unchanged", text |-> oldLine] >>
     ELSE (IF oldLine # <<>> THEN << [type |-> "removed", text |-> oldLine] >> ELSE << >>)
          \o (IF newLine # <<>> THEN << [type |-> "added", text |-> newLine] >> ELSE << >>)

RECURSIVE diffLoop(_, _, _, _, _)
diffLoop(oldLines, newLines, i, maxLines, result) ==
  IF i > maxLines THEN result
  ELSE diffLoop(oldLines, newLines, i + 1, maxLines,
                result \o diffStep(oldLines, newLines, i))

getDiff(oldText, newText) ==
  LET oldLines == split(oldText)
      newLines == split(newText)
  IN diffLoop(oldLines, newLines, 1, Max(Len(oldLines), Len(newLines)), << >>)

DiffInit ==
  /\ \E n \in 0..MaxTextLen : compareText \in TextsOfLen(n)
  /\ \E n \in 0..MaxTextLen : selectedText \in TextsOfLen(n)
  /\ diffLines = << >>
  /\ diffShown = FALSE

DiffIdle ==
  /\ compareText = << >>
  /\ selectedText = << >>
  /\ diffLines = << >>
  /\ diffShown = FALSE

\* the comparison modal: getDiff(compareVersion.text, selectedVersion.text)
ShowDiff ==
  /\ diffLines' = getDiff(compareText, selectedText)
  /\ diffShown' = TRUE
  /\ UNCHANGED <<compareText, selectedText>>

(***************************************************************************)
(* Cache/query layer  (services/api.ts, createApi)                         *)
(*                                                                         *)
(* The endpoints and the tags they provide or invalidate are those of      *)
(* api.ts.  The life cycle of a cached result (created by its first fetch, *)
(* marked stale by an invalidated tag, refetched at once when subscribed   *)
(* and otherwise on the next subscription, removed when unsubscribed) is   *)
(* the one the design states for CachedQueryResult.                        *)
(***************************************************************************)
PageArgs == 1..MaxArg

\* a tag without id (plain 'Pages') carries NoId
Tag(type, id) == [type |-> type, id |-> id]

PageEndpoints == {"getPage", "getPageHistory", "getCollaborators", "getPageLikes"}

ListEndpoints == {"getPages", "getPagesMyOnly", "getMyPages"}

QueryKey(endpoint, arg) == [endpoint |-> endpoint, arg |-> arg]

QueryKeys ==
  { QueryKey(e, a) : e \in PageEndpoints, a \in PageArgs }
    \cup { QueryKey(e, NoId) : e \in ListEndpoints \cup {"searchPages"} }

\* providesTags of each query endpoint
providesTags(q) ==
  IF q.endpoint \in ListEndpoints THEN { Tag("Pages", NoId) }
  ELSE IF q.endpoint = "searchPages" THEN { Tag("Search", NoId) }
  ELSE { Tag("Page", q.arg) }

Mutations ==
  { [endpoint |-> "createPage", arg |-> NoId] }
    \cup { [endpoint |-> e, arg |-> a] :
             e \in {"updatePage", "deletePage", "restoreVersion", "addCollaborator",
                    "likePage", "unlikePage"},
             a \in PageArgs }

\* mutant: updatePage invalidates the page lists only, as deletePage does
invalidatesTags_updateListOnly(m) ==
  IF m.endpoint \in {"createPage", "deletePage", "updatePage"} THEN { Tag("Pages", NoId) }
  ELSE IF m.endpoint = "restoreVersion"
       THEN { Tag("Page", m.arg), Tag("Pages", NoId) }
       ELSE { Tag("Page", m.arg) }

\* mutant: updatePage invalidates the whole Page type instead of one id
invalidatesTags_updateAllPages(m) ==
  IF m.endpoint \in {"createPage", "deletePage"} THEN { Tag("Pages", NoId) }
  ELSE IF m.endpoint = "updatePage"
       THEN { Tag("Page", NoId), Tag("Pages", NoId) }
       ELSE IF m.endpoint = "restoreVersion"
            THEN { Tag("Page", m.arg), Tag("Pages", NoId) }
            ELSE { Tag("Page", m.arg) }

\* mutant: addCollaborator invalidates the page lists as well, as updatePage
\* does
invalidatesTags_collaboratorAlsoList(m) ==
  IF m.endpoint \in {"createPage", "deletePage"} THEN { Tag("Pages", NoId) }
  ELSE IF m.endpoint \in {"updatePage", "restoreVersion", "addCollaborator"}
       THEN { Tag("Page", m.arg), Tag("Pages", NoId) }
       ELSE { Tag("Page", m.arg) }

\* mutant: createPage invalidates nothing
invalidatesTags_createNothing(m) ==
  IF m.endpoint = "createPage" THEN {}
  ELSE IF m.endpoint = "deletePage" THEN { Tag("Pages", NoId) }
  ELSE IF m.endpoint \in {"updatePage", "restoreVersion"}
       THEN { Tag("Page", m.arg), Tag("Pages", NoId) }
       ELSE { Tag("Page", m.arg) }

\* invalidatesTags of each mutation endpoint
invalidatesTags(m) ==
  IF m.endpoint \in {"createPage", "deletePage"} THEN { Tag("Pages", NoId) }
  ELSE IF m.endpoint \in {"updatePage", "restoreVersion"}
       THEN { Tag("Page", m.arg), Tag("Pages", NoId) }
       ELSE { Tag("Page", m.arg) }

\* an invalidated tag without id hits every provided tag of its type, one
\* with an id hits the provided tag with that type and id
TagHits(inv, prov) ==
  /\ inv.type = prov.type
  /\ (inv.id = NoId \/ inv.id = prov.id)

Invalidated(q, tags) == \E inv \in tags : \E prov \in providesTags(q) : TagHits(inv, prov)

\* status of a cached result:
\*   pending     first fetch in flight, no result yet
\*   fresh       result held and valid
\*   stale       result held, invalidated, refetch due at the next subscription
\*   refetching  result held, invalidated or re-requested, fetch in flight
Entry(status, subscribed) == [status |-> status, subscribed |-> subscribed]

HasResult(e) == e.status \in {"fresh", "stale", "refetching"}

\* mutant: an invalidated result is marked stale and its subscribers keep it
markStale_noRefetch(e) ==
  IF e.status = "fresh" THEN Entry("stale", e.subscribed) ELSE e

markStale(e) ==
  IF e.status = "fresh"
  THEN Entry(IF e.subscribed THEN "refetching" ELSE "stale", e.subscribed)
  ELSE e

invalidate(c, tags) ==
  [q \in DOMAIN c |-> IF Invalidated(q, tags) THEN markStale(c[q]) ELSE c[q]]

CacheInit == cache = [q \in {} |-> Entry("pending", FALSE)]

\* a view mounts a query hook: first use fetches, a stale result is refetched
Subscribe(q) ==
  /\ IF q \in DOMAIN cache
     THEN /\ ~cache[q].subscribed
          /\ cache' = [cache EXCEPT ![q] =
                         Entry(IF @.status = "stale" THEN "refetching" ELSE @.status, TRUE)]
     ELSE /\ Cardinality(DOMAIN cache) < MaxCached
          /\ cache' = [k \in (DOMAIN cache) \cup {q} |->
                         IF k = q THEN Entry("pending", TRUE) ELSE cache[k]]

\* the view unmounts
Unsubscribe(q) ==
  /\ q \in DOMAIN cache
  /\ cache[q].subscribed
  /\ cache' = [cache EXCEPT ![q].subscribed = FALSE]

\* an unreferenced result is dropped
RemoveUnused(q) ==
  /\ q \in DOMAIN cache
  /\ ~cache[q].subscribed
  /\ cache' = [k \in (DOMAIN cache) \ {q} |-> cache[k]]

\* the response of a query arrives
FetchFulfilled(q) ==
  /\ q \in DOMAIN cache
  /\ cache[q].status \in {"pending", "refetching"}
  /\ cache' = [cache EXCEPT ![q].status = "fresh"]

\* the success response of a mutation arrives
MutationFulfilled(m) ==
  /\ cache' = invalidate(cache, invalidatesTags(m))

\* the error response of a mutation arrives (baseQueryWithReauth returns
\* every failure as an error value): invalidatesTags is an array, or a
\* function of (result, error, arg) that does not read error, so the tags
\* are the same as on success, and they are invalidated
MutationRejected(m) ==
  /\ cache' = invalidate(cache, invalidatesTags(m))

(***************************************************************************)
(* Session store and the 401 handler                                       *)
(* (features/auth/authSlice.ts, services/api.ts, App.tsx, Login, Header)   *)
(*                                                                         *)
(* A token is a number of 1..MaxToken, null is NoId; a loaded user is      *)
(* named by the token its /users/me request carried.                       *)
(***************************************************************************)
Tokens == 1..MaxToken

\* the authorization header a request can carry
Auths == {NoId} \cup Tokens

\* what comes back for a request, a 401 apart: a success, a rejection by the
\* application with its HTTP status (forbidden, not found, validation error),
\* or nothing, when the server cannot be reached and fetch throws
OtherStatuses == {"OK", "403", "404", "422", "NO_RESPONSE"}

\* mutant: every failure is reported as FETCH_ERROR
resultStatus_allFetchError(outcome) ==
  IF outcome = "OK" THEN "OK" ELSE "FETCH_ERROR"

\* the status of the result baseQueryWithReauth returns: fetchFn rethrows what
\* fetch threw and the result is {status: 'FETCH_ERROR'}, from the base query
\* or from the catch branch; a response is returned with its own status
resultStatus(outcome) ==
  IF outcome = "NO_RESPONSE" THEN "FETCH_ERROR" ELSE outcome

RECURSIVE SumOver(_, _)
SumOver(f, S) ==
  IF S = {} THEN 0
  ELSE LET x == CHOOSE y \in S : TRUE
       IN f[x] + SumOver(f, S \ {x})

Total(f) == SumOver(f, DOMAIN f)

\* the requests of the query layer: how many are sent and unanswered, by the
\* header they carry; how many 401 handlers await the import; and the status
\* of the result baseQueryWithReauth returned last
NoRequests ==
  [sent |-> [a \in Auths |-> 0], clearing |-> 0, returned |-> "none"]

InFlight(r) == Total(r.sent) + r.clearing

\* the fetchCurrentUser requests: the token each carries and who dispatched it
MeKinds == Tokens \X {"login", "effect"}

NoMe == [k \in MeKinds |-> 0]

\* mutant: prepareHeaders reads the persisted token only
prepareHeaders_storedOnly(stateToken, storedToken) ==
  IF Truthy(storedToken) THEN storedToken ELSE NoId

\* prepareHeaders: the authorization header of a request (the token after
\* 'Bearer '), NoId when no header is set
prepareHeaders(stateToken, storedToken) ==
  LET t == IF Truthy(stateToken) THEN stateToken ELSE storedToken
  IN IF Truthy(t) THEN t ELSE NoId

AuthInit ==
  /\ stored \in {NoId} \cup Tokens
  /\ token = stored
  /\ user = NoId
  /\ loading = FALSE
  /\ error = FALSE
  /\ requests = NoRequests
  /\ loginInFlight = FALSE
  /\ meInFlight = NoMe
  /\ effectDue = TRUE

AuthIdle ==
  /\ stored = NoId
  /\ token = NoId
  /\ user = NoId
  /\ loading = FALSE
  /\ error = FALSE
  /\ requests = NoRequests
  /\ loginInFlight = FALSE
  /\ meInFlight = NoMe
  /\ effectDue = FALSE

\* baseQuery(args, api, extraOptions) sends a request with the headers of
\* prepareHeaders
IssueRequest ==
  /\ InFlight(requests) < MaxInFlight
  /\ requests' = [requests EXCEPT !.sent[prepareHeaders(token, stored)] = @ + 1]
  /\ UNCHANGED <<user, token, stored, loading, error, loginInFlight, meInFlight,
                 effectDue, cache>>

\* a request sent with header a completes otherwise than by a 401 (success,
\* another HTTP error status, or no response at all): neither branch of
\* baseQueryWithReauth touches the session, the result is returned
RespondOther(a, status) ==
  /\ requests.sent[a] > 0
  /\ requests' = [requests EXCEPT !.sent[a] = @ - 1, !.returned = resultStatus(status)]
  /\ UNCHANGED <<user, token, stored, loading, error, loginInFlight, meInFlight,
                 effectDue, cache>>

\* mutant: the handler acts on a 401 only when the request carried the
\* credential the session holds now
Respond401_currentOnly(a) ==
  /\ requests.sent[a] > 0
  /\ a = prepareHeaders(token, stored)
  /\ stored' = NoId
  /\ requests' = [requests EXCEPT !.sent[a] = @ - 1, !.clearing = @ + 1]
  /\ UNCHANGED <<user, token, loading, error, loginInFlight, meInFlight, effectDue, cache>>

\* a 401 arrives for a request sent with header a:
\* localStorage.removeItem('token'), then the handler awaits the import of
\* authSlice
Respond401(a) ==
  /\ requests.sent[a] > 0
  /\ stored' = NoId
  /\ requests' = [requests EXCEPT !.sent[a] = @ - 1, !.clearing = @ + 1]
  /\ UNCHANGED <<user, token, loading, error, loginInFlight, meInFlight, effectDue, cache>>

Session(u, t, s) == [user |-> u, token |-> t, stored |-> s]

\* mutant: logout clears the user and the persisted token but leaves
\* state.token
logout_keepToken(session) == Session(NoId, session.token, NoId)

\* logout reducer: state.user = null, state.token = null,
\* localStorage.removeItem('token')
logout(session) == Session(NoId, NoId, NoId)

\* the import has resolved: api.dispatch(authSlice.logout()), and the 401
\* result is returned
Clear401 ==
  /\ requests.clearing > 0
  /\ user' = logout(Session(user, token, stored)).user
  /\ token' = logout(Session(user, token, stored)).token
  /\ stored' = logout(Session(user, token, stored)).stored
  /\ requests' = [requests EXCEPT !.clearing = @ - 1, !.returned = "401"]
  /\ effectDue' = (effectDue \/ user # NoId)
  /\ UNCHANGED <<loading, error, loginInFlight, meInFlight, cache>>

\* mutant: handleLogout resets the cache of the query layer as well
Logout_resetCache ==
  /\ user # NoId
  /\ user' = logout(Session(user, token, stored)).user
  /\ token' = logout(Session(user, token, stored)).token
  /\ stored' = logout(Session(user, token, stored)).stored
  /\ effectDue' = TRUE
  /\ cache' = [q \in {} |-> Entry("pending", FALSE)]
  /\ UNCHANGED <<loading, error, requests, loginInFlight, meInFlight>>

\* Header.handleLogout: the button is shown while a user is loaded
Logout ==
  /\ user # NoId
  /\ user' = logout(Session(user, token, stored)).user
  /\ token' = logout(Session(user, token, stored)).token
  /\ stored' = logout(Session(user, token, stored)).stored
  /\ effectDue' = TRUE
  /\ UNCHANGED <<loading, error, requests, loginInFlight, meInFlight, cache>>

\* mutant: login.pending leaves the recorded error
LoginSubmit_keepError ==
  /\ user = NoId
  /\ ~loading
  /\ ~loginInFlight
  /\ loginInFlight' = TRUE
  /\ loading' = TRUE
  /\ UNCHANGED <<user, token, stored, error, requests, meInFlight, effectDue, cache>>

\* Login.handleSubmit, login.pending (the form is shown while no user is
\* loaded, the button is disabled while loading)
LoginSubmit ==
  /\ user = NoId
  /\ ~loading
  /\ ~loginInFlight
  /\ loginInFlight' = TRUE
  /\ loading' = TRUE
  /\ error' = FALSE
  /\ UNCHANGED <<user, token, stored, requests, meInFlight, effectDue, cache>>

\* login.fulfilled, then handleSubmit goes on to dispatch fetchCurrentUser
\* (fetchCurrentUser.pending)
LoginFulfilled(t) ==
  /\ loginInFlight
  /\ Total(meInFlight) < MaxMe
  /\ loginInFlight' = FALSE
  /\ token' = t
  /\ stored' = t
  /\ loading' = TRUE
  /\ meInFlight' = [meInFlight EXCEPT ![<<t, "login">>] = @ + 1]
  /\ UNCHANGED <<user, error, requests, effectDue, cache>>

\* login.rejected
LoginRejected ==
  /\ loginInFlight
  /\ loginInFlight' = FALSE
  /\ loading' = FALSE
  /\ error' = TRUE
  /\ UNCHANGED <<user, token, stored, requests, meInFlight, effectDue, cache>>

\* AppRoutes.useEffect([dispatch, user]): resolve the current user when a
\* token is persisted and no user is loaded
RunEffect ==
  /\ effectDue
  /\ effectDue' = FALSE
  /\ IF Truthy(stored) /\ user = NoId
     THEN /\ Total(meInFlight) < MaxMe
          /\ meInFlight' = [meInFlight EXCEPT ![<<stored, "effect">>] = @ + 1]
          /\ loading' = TRUE
     ELSE UNCHANGED <<meInFlight, loading>>
  /\ UNCHANGED <<user, token, stored, error, requests, loginInFlight, cache>>

\* fetchCurrentUser.fulfilled for a request of kind k; after a login
\* handleSubmit goes on to api.util.invalidateTags(['Pages'])
MeFulfilled(k) ==
  /\ meInFlight[k] > 0
  /\ loading' = FALSE
  /\ user' = k[1]
  /\ effectDue' = (effectDue \/ user # k[1])
  /\ meInFlight' = [meInFlight EXCEPT ![k] = @ - 1]
  /\ cache' = IF k[2] = "login"
              THEN invalidate(cache, { Tag("Pages", NoId) })
              ELSE cache
  /\ UNCHANGED <<token, stored, error, requests, loginInFlight>>

\* mutant: fetchCurrentUser.rejected clears state.token but leaves the
\* persisted token
MeRejected_keepStored(k) ==
  /\ meInFlight[k] > 0
  /\ loading' = FALSE
  /\ token' = NoId
  /\ meInFlight' = [meInFlight EXCEPT ![k] = @ - 1]
  /\ UNCHANGED <<user, stored, error, requests, loginInFlight, effectDue, cache>>

\* fetchCurrentUser.rejected for a request of kind k
MeRejected(k) ==
  /\ meInFlight[k] > 0
  /\ loading' = FALSE
  /\ token' = NoId
  /\ stored' = NoId
  /\ meInFlight' = [meInFlight EXCEPT ![k] = @ - 1]
  /\ UNCHANGED <<user, error, requests, loginInFlight, effectDue, cache>>

(***************************************************************************)
(* Concurrent updates of one page                                          *)
(* (features/wiki/pagesSlice.ts updatePage, services/api.ts updatePage and *)
(* getPage, PageEditor)                                                    *)
(*                                                                         *)
(* The server numbers the revisions of the page 1, 2, ...; a successful    *)
(* update makes the next revision and answers with it, a fetch answers     *)
(* with the revision the server holds when it handles the request.         *)
(***************************************************************************)
Revs == 1..MaxRev

NullPage == [id |-> NoId, rev |-> NoId]

Page(id, rev) == [id |-> id, rev |-> rev]

\* the cached getPage result of the page being edited, with a subscriber:
\* data is the revision held (NoId before the first response), fetch tells
\* whether a request is in flight ("sent", or "served" with the revision rev
\* in its response), again whether the result was invalidated while that
\* request was in flight and is to be fetched once more
PageQuery(data, fetch, rev, again) ==
  [data |-> data, fetch |-> fetch, rev |-> rev, again |-> again]

WritesInFlight == thunksSent + Cardinality(thunksServed) + mutsSent + mutsServed

RaceInit ==
  /\ editedPage \in PageArgs
  /\ serverRev = 1
  /\ thunksSent = 0
  /\ thunksServed = {}
  /\ mutsSent = 0
  /\ mutsServed = 0
  /\ pageQuery = PageQuery(NoId, "sent", NoId, FALSE)
  /\ activePage \in {NullPage} \cup { Page(p, 1) : p \in PageArgs }

RaceIdle ==
  /\ editedPage = 1
  /\ serverRev = 1
  /\ thunksSent = 0
  /\ thunksServed = {}
  /\ mutsSent = 0
  /\ mutsServed = 0
  /\ pageQuery = PageQuery(NoId, "none", NoId, FALSE)
  /\ activePage = NullPage

\* dispatch(updatePage({id, ...})) of pagesSlice
ThunkIssue ==
  /\ WritesInFlight < MaxWrites
  /\ thunksSent' = thunksSent + 1
  /\ UNCHANGED <<editedPage, serverRev, thunksServed, mutsSent, mutsServed, pageQuery,
                 activePage>>

\* the server applies the update of a thunk and answers with the new revision
ThunkServe ==
  /\ thunksSent > 0
  /\ serverRev < MaxRev
  /\ thunksSent' = thunksSent - 1
  /\ serverRev' = serverRev + 1
  /\ thunksServed' = thunksServed \cup {serverRev + 1}
  /\ UNCHANGED <<editedPage, mutsSent, mutsServed, pageQuery, activePage>>

\* updatePage.rejected: the slice has no case for it
ThunkRejected ==
  /\ thunksSent > 0
  /\ thunksSent' = thunksSent - 1
  /\ UNCHANGED <<editedPage, serverRev, thunksServed, mutsSent, mutsServed, pageQuery,
                 activePage>>

\* mutant: the reducer keeps the newer of the held and the received revision
updatePageFulfilled_keepNewest(state, payload) ==
  IF state # NullPage /\ state.id = payload.id /\ payload.rev > state.rev
  THEN payload ELSE state

\* reducer of updatePage.fulfilled: activePage after the payload
updatePageFulfilled(state, payload) ==
  IF state # NullPage /\ state.id = payload.id THEN payload ELSE state

\* the response of a thunk arrives: updatePage.fulfilled
ThunkFulfilled(r) ==
  /\ r \in thunksServed
  /\ thunksServed' = thunksServed \ {r}
  /\ activePage' = updatePageFulfilled(activePage, Page(editedPage, r))
  /\ UNCHANGED <<editedPage, serverRev, thunksSent, mutsSent, mutsServed, pageQuery>>

\* PageEditor.handleSubmit: updatePage({id, ...}) of the api
MutationIssue ==
  /\ WritesInFlight < MaxWrites
  /\ mutsSent' = mutsSent + 1
  /\ UNCHANGED <<editedPage, serverRev, thunksSent, thunksServed, mutsServed, pageQuery,
                 activePage>>

\* the server handles the update of a mutation: it applies it, or refuses it
MutationServe(applied) ==
  /\ mutsSent > 0
  /\ applied => serverRev < MaxRev
  /\ mutsSent' = mutsSent - 1
  /\ mutsServed' = mutsServed + 1
  /\ serverRev' = IF applied THEN serverRev + 1 ELSE serverRev
  /\ UNCHANGED <<editedPage, thunksSent, thunksServed, pageQuery, activePage>>

\* the response of a mutation arrives and its tags (Page:id, Pages) are
\* invalidated: the subscribed getPage result is fetched again, at once when
\* no request for it is in flight; when one is, the query library either
\* leaves it at that or fetches once more after it, depending on its version
MutationArrives(refetchAfter) ==
  /\ mutsServed > 0
  /\ mutsServed' = mutsServed - 1
  /\ pageQuery' =
       IF pageQuery.fetch = "none" THEN [pageQuery EXCEPT !.fetch = "sent"]
       ELSE IF refetchAfter THEN [pageQuery EXCEPT !.again = TRUE]
       ELSE pageQuery
  /\ UNCHANGED <<editedPage, serverRev, thunksSent, thunksServed, mutsSent, activePage>>

\* the server handles the getPage request
QueryServe ==
  /\ pageQuery.fetch = "sent"
  /\ pageQuery' = [pageQuery EXCEPT !.fetch = "served", !.rev = serverRev]
  /\ UNCHANGED <<editedPage, serverRev, thunksSent, thunksServed, mutsSent, mutsServed,
                 activePage>>

\* the response of getPage arrives and becomes the cached data
QueryFulfilled ==
  /\ pageQuery.fetch = "served"
  /\ pageQuery' = PageQuery(pageQuery.rev, IF pageQuery.again THEN "sent" ELSE "none",
                            NoId, FALSE)
  /\ UNCHANGED <<editedPage, serverRev, thunksSent, thunksServed, mutsSent, mutsServed,
                 activePage>>

(***************************************************************************)
(* Recently visited pages (Sidebar, PageViewer)                            *)
(***************************************************************************)
\* recent.slice(0, 5): the length a list is cut to
RecentCap == 5

\* the pages a visitor opens: one more than a list can hold
VisitPages == 1..(RecentCap + 1)

\* the keys of localStorage that hold a list: 'recentPages_<user id>' for
\* each user and 'recentPages_guest' (written as NoId)
RecentKeys == Auths

\* the list a user has after visiting the pages 1..RecentCap in turn
FullList == [i \in 1..RecentCap |-> RecentCap + 1 - i]

StartLists == {<<>>, FullList}

\* recent.filter(id => id !== pageId)
Without(list, pageId) == SelectSeq(list, LAMBDA id : id # pageId)

\* recent.slice(0, 5)
Slice(list) ==
  SubSeq(list, 1, IF Len(list) < RecentCap THEN Len(list) ELSE RecentCap)

getRecentPagesKey(userId) == IF userId = NoId THEN NoId ELSE userId

getRecentPages(store, userId) == store[getRecentPagesKey(userId)]

\* the helper as it was before the lists were kept per user: one list under
\* one key, whoever visits
addRecentPage_unkeyed(store, pageId, userId) ==
  [store EXCEPT ![NoId] = Slice(<<pageId>> \o Without(store[NoId], pageId))]

\* addRecentPage(pageId, userId) of the Sidebar: nothing for a guest, else
\* the page goes to the front of the user's list, once, and the list is cut
addRecentPage(store, pageId, userId) ==
  IF userId = NoId
  THEN store
  ELSE [store EXCEPT ![getRecentPagesKey(userId)] =
          Slice(<<pageId>> \o Without(getRecentPages(store, userId), pageId))]

\* the Sidebar's effect on [location, user]: a path /page/<digits> is tracked
\* for the user, nothing is tracked for a guest or on another path
TrackLocation(store, loc, usr) ==
  IF usr = NoId \/ loc = NoId THEN store ELSE addRecentPage(store, loc, usr)

\* the PageViewer's effect on [page, user]: the page its query holds is put
\* in front of the user's list, written under 'recentPages_<user id>'
TrackPage(store, page, usr) ==
  IF page # NoId /\ usr # NoId
  THEN [store EXCEPT ![usr] = Slice(<<page>> \o Without(store[usr], page))]
  ELSE store

\* the lists persisted by earlier sessions (every user's empty, or every
\* user's full), and any user (or none) loaded
RecentInit ==
  /\ \E list \in StartLists :
       recent = [k \in RecentKeys |-> IF k = NoId THEN <<>> ELSE list]
  /\ location = NoId
  /\ viewed = NoId
  /\ visits = 0
  /\ user \in Auths
  /\ stored = NoId
  /\ token = NoId
  /\ loading = FALSE
  /\ error = FALSE
  /\ requests = NoRequests
  /\ loginInFlight = FALSE
  /\ meInFlight = NoMe
  /\ effectDue = FALSE

RecentIdle ==
  /\ recent = [k \in RecentKeys |-> <<>>]
  /\ location = NoId
  /\ viewed = NoId
  /\ visits = 0

\* navigate(...) to the path of page l, or to a path of no page (NoId). The
\* Sidebar's effect runs for the new location. Off the page route the
\* PageViewer is unmounted; on it, its query holds the new page at once when
\* that page is cached and keeps the data it had while the page is fetched;
\* its effect runs when the page it holds changed
Navigate(l, cached) ==
  /\ visits < MaxVisits
  /\ l # location
  /\ visits' = visits + 1
  /\ location' = l
  /\ viewed' = IF l = NoId THEN NoId ELSE IF cached THEN l ELSE viewed
  /\ recent' = LET tracked == TrackLocation(recent, l, user)
               IN IF viewed' # viewed THEN TrackPage(tracked, viewed', user) ELSE tracked
  /\ UNCHANGED user

\* the page of the location arrives in the PageViewer, whose effect runs
PageArrives ==
  /\ location # NoId
  /\ viewed # location
  /\ viewed' = location
  /\ recent' = TrackPage(recent, location, user)
  /\ UNCHANGED <<location, visits, user>>

\* state.auth.user is assigned: null by logout, the user loaded by
\* fetchCurrentUser.fulfilled (dispatched only while there is no user). Both
\* effects run again, the Sidebar's first
SetUser(u) ==
  /\ u # user
  /\ user = NoId \/ u = NoId
  /\ user' = u
  /\ recent' = TrackPage(TrackLocation(recent, location, u), viewed, u)
  /\ UNCHANGED <<location, viewed, visits>>

(***************************************************************************)
(* The collaborators view (PageCollaborators)                              *)
(***************************************************************************)
\* the ids of the users the server knows, of one and of two digits
UserIds == 8..(7 + MaxUser)

Roles == {"admin", "user"}

\* value={u.id}: the id as a string, String(n) of a positive integer, as the
\* sequence of its decimal digits
RECURSIVE toString(_)
toString(n) == IF n < 10 THEN <<n>> ELSE toString(n \div 10) \o <<n % 10>>

\* parseInt(s) of a string of decimal digits; NaN (written NoId) for ''
RECURSIVE parseInt(_)
parseInt(s) ==
  IF s = <<>> THEN NoId
  ELSE IF Len(s) = 1 THEN s[1]
  ELSE 10 * parseInt(SubSeq(s, 1, Len(s) - 1)) + s[Len(s)]

\* user && page && (user.role === 'admin' || user.id === page.author.id)
canManageCollaborators ==
  author # NoId /\ (viewer.role = "admin" \/ viewer.id = author)

\* the options with the current user filtered out only
Options_selfOnly == { u \in users : u # viewer.id }

\* users.filter(u => u.id !== user?.id && u.id !== page?.author.id)
Options == { u \in users : u # viewer.id /\ u # author }

CollabInit ==
  /\ author = NoId
  /\ viewer \in [id : UserIds, role : Roles]
  /\ users = {}
  /\ selectedUserId = <<>>
  /\ showAddModal = FALSE
  /\ isAdding = FALSE
  /\ submitted = {}

CollabIdle ==
  /\ author = NoId
  /\ viewer = [id |-> 8, role |-> "user"]
  /\ users = {}
  /\ selectedUserId = <<>>
  /\ showAddModal = FALSE
  /\ isAdding = FALSE
  /\ submitted = {}

\* the page of the view arrives: data of useGetPageQuery(pageIdNum)
PageLoaded(a) ==
  /\ author = NoId
  /\ author' = a
  /\ UNCHANGED <<viewer, users, selectedUserId, showAddModal, isAdding, submitted>>

\* the effect's GET /users/list answers: setUsers(response.data)
UsersFetched(list) ==
  /\ canManageCollaborators
  /\ users = {}
  /\ list # {}
  /\ users' = list
  /\ UNCHANGED <<author, viewer, selectedUserId, showAddModal, isAdding, submitted>>

\* the 'Add Collaborator' button of the header: setShowAddModal(true)
OpenModal ==
  /\ canManageCollaborators
  /\ ~showAddModal
  /\ showAddModal' = TRUE
  /\ UNCHANGED <<author, viewer, users, selectedUserId, isAdding, submitted>>

\* onClose and Cancel: setShowAddModal(false), the selection stays
CloseModal ==
  /\ showAddModal
  /\ showAddModal' = FALSE
  /\ UNCHANGED <<author, viewer, users, selectedUserId, isAdding, submitted>>

\* onChange of the select: one of the options on offer, or 'Select a user'
SelectUser(value) ==
  /\ canManageCollaborators
  /\ showAddModal
  /\ value \in {<<>>} \cup { toString(u) : u \in Options }
  /\ selectedUserId' = value
  /\ UNCHANGED <<author, viewer, users, showAddModal, isAdding, submitted>>

\* handleAddCollaborator, from the button that is disabled without a
\* selection and while a mutation is under way
handleAddCollaborator ==
  /\ canManageCollaborators
  /\ showAddModal
  /\ selectedUserId # <<>>
  /\ ~isAdding
  /\ submitted' = submitted \cup {parseInt(selectedUserId)}
  /\ isAdding' = TRUE
  /\ UNCHANGED <<author, viewer, users, selectedUserId, showAddModal>>

\* the mutation succeeds: the modal is closed and the form reset
AddFulfilled ==
  /\ isAdding
  /\ isAdding' = FALSE
  /\ showAddModal' = FALSE
  /\ selectedUserId' = <<>>
  /\ UNCHANGED <<author, viewer, users, submitted>>

\* the mutation fails: setError, the form stays as it is
AddRejected ==
  /\ isAdding
  /\ isAdding' = FALSE
  /\ UNCHANGED <<author, viewer, users, selectedUserId, showAddModal, submitted>>

(***************************************************************************)
(* What the views render (PageViewer, PageCollaborators)                   *)
(*                                                                         *)
(* A query hook is loading (first fetch in flight, no data), has data, has *)
(* failed (error, no data) or is skipped (never started, no data).         *)
(***************************************************************************)
Outcomes == {"data", "error"}

\* the hook's data is defined
Has(status) == status = "data"

\* the PageViewer's return: the loading and not-found guards, then the page;
\* collaborators is read as `collaborators && ...` and likesData as
\* `likesData?.`, so neither is dereferenced when absent
RenderPageViewer(q) ==
  IF q.getPage = "loading" THEN "loading"
  ELSE IF q.getPage = "error" \/ ~Has(q.getPage) THEN "not-found"
  ELSE "content"

PageViewerView(getPage, getCollaborators, getPageLikes) ==
  LET q == [getPage |-> getPage, getCollaborators |-> getCollaborators,
            getPageLikes |-> getPageLikes]
  IN  [getPage |-> getPage, getCollaborators |-> getCollaborators,
       getPageLikes |-> getPageLikes, view |-> RenderPageViewer(q)]

\* the PageCollaborators' return: the permission guard (which needs the page),
\* the loading guard of getCollaborators, then the list, where
\* `collaborators.length === 0` reads collaborators without a guard
RenderCollaborators(q) ==
  IF ~(q.manager /\ Has(q.getPage)) THEN "permission"
  ELSE IF q.getCollaborators = "loading" THEN "loading"
  ELSE IF Has(q.getCollaborators) THEN "list"
  ELSE "crash"

CollaboratorsView(manager, getPage, getCollaborators) ==
  LET q == [manager |-> manager, getPage |-> getPage,
            getCollaborators |-> getCollaborators]
  IN  [manager |-> manager, getPage |-> getPage, getCollaborators |-> getCollaborators,
       view |-> RenderCollaborators(q)]

\* the views mount: every query that is not skipped is in flight. The
\* PageViewer skips collaborators and likes for a guest; manager says whether
\* the user is an administrator or the author of the page
ViewsInit ==
  /\ \E signedIn \in BOOLEAN :
       pv = PageViewerView("loading", IF signedIn THEN "loading" ELSE "skipped",
                           IF signedIn THEN "loading" ELSE "skipped")
  /\ \E manager \in BOOLEAN : pc = CollaboratorsView(manager, "loading", "loading")

ViewsIdle ==
  /\ pv = PageViewerView("loading", "skipped", "skipped")
  /\ pc = CollaboratorsView(FALSE, "loading", "loading")

\* a query of the PageViewer completes and the view renders again
ViewerSettles(name, outcome) ==
  /\ pv[name] = "loading"
  /\ pv' = PageViewerView(IF name = "getPage" THEN outcome ELSE pv.getPage,
                          IF name = "getCollaborators" THEN outcome ELSE pv.getCollaborators,
                          IF name = "getPageLikes" THEN outcome ELSE pv.getPageLikes)
  /\ UNCHANGED pc

\* a query of the PageCollaborators completes and the view renders again
CollaboratorsSettles(name, outcome) ==
  /\ pc[name] = "loading"
  /\ pc' = CollaboratorsView(pc.manager,
                             IF name = "getPage" THEN outcome ELSE pc.getPage,
                             IF name = "getCollaborators" THEN outcome
                             ELSE pc.getCollaborators)
  /\ UNCHANGED pv

InitBuild == TreeInit /\ FindIdle /\ DiffIdle /\ CacheInit /\ AuthIdle /\ RaceIdle
  /\ RecentIdle /\ CollabIdle /\ ViewsIdle
NextBuild == BuildTree /\ UNCHANGED <<findVars, diffVars, cacheVars, authVars, raceVars,
                       recentVars, collabVars, viewVars>>
SpecBuild == InitBuild /\ [][NextBuild]_vars

InitFind == FindInit /\ TreeIdle /\ DiffIdle /\ CacheInit /\ AuthIdle /\ RaceIdle
  /\ RecentIdle /\ CollabIdle /\ ViewsIdle
NextFind == RenderParent /\ UNCHANGED <<treeVars, diffVars, cacheVars, authVars, raceVars,
                       recentVars, collabVars, viewVars>>
SpecFind == InitFind /\ [][NextFind]_vars

InitDiff == DiffInit /\ TreeIdle /\ FindIdle /\ CacheInit /\ AuthIdle /\ RaceIdle
  /\ RecentIdle /\ CollabIdle /\ ViewsIdle
NextDiff == ShowDiff /\ UNCHANGED <<treeVars, findVars, cacheVars, authVars, raceVars,
                       recentVars, collabVars, viewVars>>
SpecDiff == InitDiff /\ [][NextDiff]_vars

CacheFrame == UNCHANGED <<treeVars, findVars, diffVars, authVars, raceVars,
                       recentVars, collabVars, viewVars>>

InitCache == CacheInit /\ TreeIdle /\ FindIdle /\ DiffIdle /\ AuthIdle /\ RaceIdle
  /\ RecentIdle /\ CollabIdle /\ ViewsIdle
NextCache ==
  \/ (\E q \in QueryKeys : Subscribe(q)) /\ CacheFrame
  \/ (\E q \in QueryKeys : Unsubscribe(q)) /\ CacheFrame
  \/ (\E q \in QueryKeys : RemoveUnused(q)) /\ CacheFrame
  \/ (\E q \in QueryKeys : FetchFulfilled(q)) /\ CacheFrame
  \/ (\E m \in Mutations : MutationFulfilled(m)) /\ CacheFrame
SpecCache == InitCache /\ [][NextCache]_vars

\* the cache of the views of pages, of the page list and of the search, with
\* mutations that fail as well as succeed and with the scheduling of
\* responses: a fetch in flight gets its response
RefetchKeys ==
  { QueryKey("getPage", a) : a \in PageArgs }
    \cup { QueryKey("getPages", NoId), QueryKey("searchPages", NoId) }

NextRefetch ==
  \/ (\E q \in RefetchKeys : Subscribe(q)) /\ CacheFrame
  \/ (\E q \in RefetchKeys : Unsubscribe(q)) /\ CacheFrame
  \/ (\E q \in RefetchKeys : RemoveUnused(q)) /\ CacheFrame
  \/ (\E q \in RefetchKeys : FetchFulfilled(q)) /\ CacheFrame
  \/ (\E m \in Mutations : MutationFulfilled(m)) /\ CacheFrame
  \/ (\E m \in Mutations : MutationRejected(m)) /\ CacheFrame
FairRefetch == \A q \in RefetchKeys : WF_vars(FetchFulfilled(q) /\ CacheFrame)
SpecRefetch == InitCache /\ [][NextRefetch]_vars /\ FairRefetch

\* the cache of the views of a page that is opened by its numeric id or by
\* its slug. An argument up to MaxArg is the id of a page; the slug of page
\* x is written MaxArg + x. The argument goes into the tag as it was passed
\* (typeof id === 'number' ? id : id), so the tag of a slug is the slug
SlugOf(x) == MaxArg + x

Slugs == { SlugOf(x) : x \in PageArgs }

\* the page the server resolves an argument to
PageOf(a) == IF a \in Slugs THEN a - MaxArg ELSE a

\* the queries of the PageViewer, with either identifier
SlugKeys ==
  { QueryKey(e, a) : e \in {"getPage", "getCollaborators", "getPageLikes"},
                     a \in PageArgs \cup Slugs }

\* the mutations of the editor (updatePage) and of the viewer (likePage,
\* unlikePage), with either identifier
SlugMutations ==
  { [endpoint |-> e, arg |-> a] :
      e \in {"updatePage", "likePage", "unlikePage"}, a \in PageArgs \cup Slugs }

NextSlug ==
  \/ (\E q \in SlugKeys : Subscribe(q)) /\ CacheFrame
  \/ (\E q \in SlugKeys : Unsubscribe(q)) /\ CacheFrame
  \/ (\E q \in SlugKeys : FetchFulfilled(q)) /\ CacheFrame
  \/ (\E m \in SlugMutations : MutationFulfilled(m)) /\ CacheFrame
SpecSlug == InitCache /\ [][NextSlug]_vars

AuthFrame == UNCHANGED <<treeVars, findVars, diffVars, raceVars, recentVars, collabVars, viewVars>>

\* a pending effect is flushed before the next response or user event is
\* handled (requests are themselves issued from effects and handlers)
EffectsFlushed == ~effectDue

InitAuth == AuthInit /\ CacheInit /\ TreeIdle /\ FindIdle /\ DiffIdle /\ RaceIdle
  /\ RecentIdle /\ CollabIdle /\ ViewsIdle
NextAuth ==
  \/ IssueRequest /\ AuthFrame
  \/ (\E a \in Auths : \E status \in OtherStatuses : RespondOther(a, status))
       /\ EffectsFlushed /\ AuthFrame
  \/ (\E a \in Auths : Respond401(a)) /\ EffectsFlushed /\ AuthFrame
  \/ Clear401 /\ EffectsFlushed /\ AuthFrame
  \/ Logout /\ EffectsFlushed /\ AuthFrame
  \/ LoginSubmit /\ EffectsFlushed /\ AuthFrame
  \/ (\E t \in Tokens : LoginFulfilled(t)) /\ EffectsFlushed /\ AuthFrame
  \/ LoginRejected /\ EffectsFlushed /\ AuthFrame
  \/ RunEffect /\ AuthFrame
  \/ (\E k \in MeKinds : MeFulfilled(k)) /\ EffectsFlushed /\ AuthFrame
  \/ (\E k \in MeKinds : MeRejected(k)) /\ EffectsFlushed /\ AuthFrame
SpecAuth == InitAuth /\ [][NextAuth]_vars

\* the session with the scheduling of effects: a scheduled effect is run
FairAuth == WF_vars(RunEffect /\ AuthFrame)
SpecAuthFair == InitAuth /\ [][NextAuth]_vars /\ FairAuth

\* the session together with the cache of the page list and of one page,
\* which the views of the application fill while the session changes
SessionKeys == { QueryKey("getPages", NoId), QueryKey("getPage", 1) }

NextSession ==
  \/ (\E q \in SessionKeys : Subscribe(q)) /\ CacheFrame
  \/ (\E q \in SessionKeys : Unsubscribe(q)) /\ CacheFrame
  \/ (\E q \in SessionKeys : FetchFulfilled(q)) /\ CacheFrame
  \/ IssueRequest /\ AuthFrame
  \/ (\E a \in Auths : Respond401(a)) /\ EffectsFlushed /\ AuthFrame
  \/ Clear401 /\ EffectsFlushed /\ AuthFrame
  \/ Logout /\ EffectsFlushed /\ AuthFrame
  \/ LoginSubmit /\ EffectsFlushed /\ AuthFrame
  \/ (\E t \in Tokens : LoginFulfilled(t)) /\ EffectsFlushed /\ AuthFrame
  \/ LoginRejected /\ EffectsFlushed /\ AuthFrame
  \/ RunEffect /\ AuthFrame
  \/ (\E k \in MeKinds : MeFulfilled(k)) /\ EffectsFlushed /\ AuthFrame
  \/ (\E k \in MeKinds : MeRejected(k)) /\ EffectsFlushed /\ AuthFrame
SpecSession == InitAuth /\ [][NextSession]_vars

\* the query layer alone, started with any session token and any persisted
\* token (localStorage is shared with the other tabs of the browser, so the
\* two can differ in either direction)
HeadersInit ==
  /\ token \in Auths
  /\ stored \in Auths
  /\ user \in Auths
  /\ loading = FALSE
  /\ error = FALSE
  /\ requests = NoRequests
  /\ loginInFlight = FALSE
  /\ meInFlight = NoMe
  /\ effectDue = FALSE

InitHeaders == HeadersInit /\ CacheInit /\ TreeIdle /\ FindIdle /\ DiffIdle /\ RaceIdle
  /\ RecentIdle /\ CollabIdle /\ ViewsIdle
NextHeaders ==
  \/ IssueRequest /\ AuthFrame
  \/ (\E a \in Auths : \E status \in OtherStatuses : RespondOther(a, status)) /\ AuthFrame
  \/ (\E a \in Auths : Respond401(a)) /\ AuthFrame
  \/ Clear401 /\ AuthFrame
SpecHeaders == InitHeaders /\ [][NextHeaders]_vars

RaceFrame == UNCHANGED <<treeVars, findVars, diffVars, cacheVars, authVars, recentVars,
                         collabVars, viewVars>>

InitRace == RaceInit /\ CacheInit /\ AuthIdle /\ TreeIdle /\ FindIdle /\ DiffIdle
  /\ RecentIdle /\ CollabIdle /\ ViewsIdle
NextRace ==
  \/ ThunkIssue /\ RaceFrame
  \/ ThunkServe /\ RaceFrame
  \/ ThunkRejected /\ RaceFrame
  \/ (\E r \in Revs : ThunkFulfilled(r)) /\ RaceFrame
  \/ MutationIssue /\ RaceFrame
  \/ (\E applied \in BOOLEAN : MutationServe(applied)) /\ RaceFrame
  \/ (\E refetchAfter \in BOOLEAN : MutationArrives(refetchAfter)) /\ RaceFrame
  \/ QueryServe /\ RaceFrame
  \/ QueryFulfilled /\ RaceFrame
SpecRace == InitRace /\ [][NextRace]_vars

RecentFrame ==
  UNCHANGED <<treeVars, findVars, diffVars, cacheVars, token, stored, loading, error,
              requests, loginInFlight, meInFlight, effectDue, raceVars, collabVars, viewVars>>

InitRecent == RecentInit /\ CacheInit /\ TreeIdle /\ FindIdle /\ DiffIdle /\ RaceIdle
  /\ CollabIdle /\ ViewsIdle
NextRecent ==
  \/ (\E l \in {NoId} \cup VisitPages : \E cached \in BOOLEAN : Navigate(l, cached))
       /\ RecentFrame
  \/ PageArrives /\ RecentFrame
  \/ (\E u \in Auths : SetUser(u)) /\ RecentFrame
SpecRecent == InitRecent /\ [][NextRecent]_vars

CollabFrame ==
  UNCHANGED <<treeVars, findVars, diffVars, cacheVars, authVars, raceVars, recentVars,
              viewVars>>

InitCollab == CollabInit /\ CacheInit /\ AuthIdle /\ TreeIdle /\ FindIdle /\ DiffIdle
  /\ RaceIdle /\ RecentIdle /\ ViewsIdle
NextCollab ==
  \/ (\E a \in UserIds : PageLoaded(a)) /\ CollabFrame
  \/ (\E list \in SUBSET UserIds : UsersFetched(list)) /\ CollabFrame
  \/ OpenModal /\ CollabFrame
  \/ CloseModal /\ CollabFrame
  \/ (\E u \in UserIds : SelectUser(toString(u))) /\ CollabFrame
  \/ SelectUser(<<>>) /\ CollabFrame
  \/ handleAddCollaborator /\ CollabFrame
  \/ AddFulfilled /\ CollabFrame
  \/ AddRejected /\ CollabFrame
SpecCollab == InitCollab /\ [][NextCollab]_vars

ViewsFrame ==
  UNCHANGED <<treeVars, findVars, diffVars, cacheVars, authVars, raceVars, recentVars,
              collabVars>>

InitViews == ViewsInit /\ CacheInit /\ AuthIdle /\ TreeIdle /\ FindIdle /\ DiffIdle
  /\ RaceIdle /\ RecentIdle /\ CollabIdle
NextViews ==
  \/ (\E name \in {"getPage", "getCollaborators", "getPageLikes"} :
        \E outcome \in Outcomes : ViewerSettles(name, outcome)) /\ ViewsFrame
  \/ (\E name \in {"getPage", "getCollaborators"} :
        \E outcome \in Outcomes : CollaboratorsSettles(name, outcome)) /\ ViewsFrame
SpecViews == InitViews /\ [][NextViews]_vars

(***************************************************************************)
(* Properties of the builder                                               *)
(***************************************************************************)
Ids(pages) == { pages[i].id : i \in DOMAIN pages }

UniqueIds(pages) ==
  \A i, j \in DOMAIN pages : i # j => pages[i].id # pages[j].id

\* following parent references from `id` ends, within k steps, at a record
\* whose parent is null or not in the list
RECURSIVE ReachesRoot(_, _, _)
ReachesRoot(pages, id, k) ==
  LET parents == { pages[i].parent_id : i \in { j \in DOMAIN pages : pages[j].id = id } }
  IN \A p \in parents :
       \/ ~Truthy(p)
       \/ p \notin Ids(pages)
       \/ (k > 0 /\ ReachesRoot(pages, p, k - 1))

Acyclic(pages) == \A i \in DOMAIN pages : ReachesRoot(pages, pages[i].id, Len(pages))

\* number of nodes titled t met when walking refs and everything below them,
\* to the given depth (the walk is cut because a forest built from a list
\* with colliding ids can contain itself)
RECURSIVE CountIn(_, _, _, _)
CountIn(refs, map, t, depth) ==
  IF refs = <<>> \/ depth = 0 THEN 0
  ELSE LET node == map[Head(refs)]
       IN (IF node.title = t THEN 1 ELSE 0)
          + CountIn(node.children, map, t, depth - 1)
          + CountIn(Tail(refs), map, t, depth)

Occurrences(tree, t) == CountIn(tree.roots, tree.map, t, Len(flatPages) + 1)

EveryRecordOnce == \A i \in DOMAIN flatPages : Occurrences(treeData, i) = 1

InRoots(i) ==
  \E k \in DOMAIN treeData.roots : treeData.map[treeData.roots[k]].title = i

IsChildOfParent(i) ==
  LET p == flatPages[i].parent_id
  IN /\ p \in DOMAIN treeData.map
     /\ treeData.map[p].id = p
     /\ \E k \in DOMAIN treeData.map[p].children :
          treeData.map[treeData.map[p].children[k]].title = i

ShouldBeRoot(i) ==
  \/ flatPages[i].parent_id = NoId
  \/ flatPages[i].parent_id \notin Ids(flatPages)

RootIffNoParent ==
  \A i \in DOMAIN flatPages :
    /\ InRoots(i) <=> ShouldBeRoot(i)
    /\ ~ShouldBeRoot(i) => IsChildOfParent(i)

\* C1 (as claimed): for every flat list, every input record occurs exactly
\* once in the forest returned by buildTreeFromFlat.
C1_EveryListOnce == treeBuilt => EveryRecordOnce

\* C1 (amended): for every flat list whose ids are pairwise distinct and
\* whose parent references contain no cycle, every input record occurs
\* exactly once in the forest returned by buildTreeFromFlat, orphans included.
C1_ForestListOnce ==
  (treeBuilt /\ UniqueIds(flatPages) /\ Acyclic(flatPages)) => EveryRecordOnce

C1_Witness ==
  /\ treeBuilt
  /\ UniqueIds(flatPages) /\ Acyclic(flatPages)
  /\ \E i \in DOMAIN flatPages :
       Truthy(flatPages[i].parent_id) /\ flatPages[i].parent_id \notin Ids(flatPages)
  /\ \E i \in DOMAIN flatPages : flatPages[i].parent_id \in Ids(flatPages)

\* C2 (as claimed): in the returned forest a record is a root iff its
\* parent_id is null or is no id of the list, and otherwise it is a child of
\* the record whose id is its parent_id.
C2_RootIff == treeBuilt => RootIffNoParent

\* C2 (amended): when the ids of the list are pairwise distinct, a record is
\* a root iff its parent_id is null or is no id of the list, and otherwise it
\* is a child of the record whose id is its parent_id.
C2_RootIffUnique == (treeBuilt /\ UniqueIds(flatPages)) => RootIffNoParent

C2_Witness ==
  /\ treeBuilt
  /\ UniqueIds(flatPages)
  /\ \E j, k \in DOMAIN flatPages :
       /\ flatPages[j].parent_id = flatPages[k].id
       /\ Truthy(flatPages[k].parent_id) /\ flatPages[k].parent_id \notin Ids(flatPages)
       /\ InRoots(k) /\ ~InRoots(j) /\ IsChildOfParent(j)

(***************************************************************************)
(* Properties of the lookup                                                *)
(***************************************************************************)
\* every node of a forest, at any depth
RECURSIVE NodesOf(_)
NodesOf(tree) ==
  UNION { {tree[k]} \cup (IF "children" \in DOMAIN tree[k] THEN NodesOf(tree[k].children) ELSE {})
          : k \in DOMAIN tree }

\* C3: on an acyclic forest findPageInTree returns a node of the forest whose
\* id is the target when some node at any depth has that id, and null when
\* none has.
C3_FindInTree ==
  (rendered /\ Truthy(parentId)) =>
    IF \E n \in NodesOf(pagesTree) : n.id = parentId
    THEN parentPage \in NodesOf(pagesTree) /\ parentPage.id = parentId
    ELSE parentPage = NullNode

C3_Witness ==
  /\ rendered
  /\ Len(pagesTree) >= 2
  /\ HasChildren(pagesTree[1])
  /\ pagesTree[1].id # parentId
  /\ \A n \in NodesOf(pagesTree[1].children) : n.id # parentId
  /\ pagesTree[2].id = parentId
  /\ parentPage = pagesTree[2]

C3_WitnessDeep ==
  /\ rendered
  /\ \E n \in NodesOf(pagesTree) :
       HasChildren(n) /\ HasChildren(n.children[1]) /\ parentPage = n.children[1].children[1]

(***************************************************************************)
(* Properties of the diff                                                  *)
(***************************************************************************)
\* the lines of a text, read off the positions of its newlines
NLCount(text) == Cardinality({ i \in DOMAIN text : text[i] = NL })

NLPos(text, k) ==
  IF k = 0 THEN 0
  ELSE IF k > NLCount(text) THEN Len(text) + 1
  ELSE CHOOSE i \in DOMAIN text :
         text[i] = NL /\ Cardinality({ j \in 1..i : text[j] = NL }) = k

RefLines(text) ==
  [k \in 1..(NLCount(text) + 1) |-> SubSeq(text, NLPos(text, k - 1) + 1, NLPos(text, k) - 1)]

\* the records the positional reference emits for index i
RefAt(prev, cur, i) ==
  LET hasP == i <= Len(prev)
      hasC == i <= Len(cur)
      p == IF hasP THEN prev[i] ELSE << >>
      c == IF hasC THEN cur[i] ELSE << >>
  IN IF p = c
     THEN << [type |-> "unchanged", text |-> p] >>
     ELSE (IF hasP /\ prev[i] # << >> THEN << [type |-> "removed", text |-> prev[i]] >> ELSE << >>)
          \o (IF hasC /\ cur[i] # << >> THEN << [type |-> "added", text |-> cur[i]] >> ELSE << >>)

RECURSIVE RefUpTo(_, _, _)
RefUpTo(prev, cur, n) ==
  IF n = 0 THEN << >> ELSE RefUpTo(prev, cur, n - 1) \o RefAt(prev, cur, n)

RefDiff(previous, current) ==
  LET prev == RefLines(previous)
      cur == RefLines(current)
  IN RefUpTo(prev, cur, Max(Len(prev), Len(cur)))

TypesOf(recs) == { recs[k].type : k \in DOMAIN recs }

TextsOf(recs) == [k \in DOMAIN recs |-> recs[k].text]

NonEmpty(line) == line # << >>

OfOld(r) == r.type \in {"removed", "unchanged"} /\ r.text # << >>

OfNew(r) == r.type \in {"added", "unchanged"} /\ r.text # << >>

IsAdded(r) == r.type = "added"

BlankCount(lines) == Cardinality({ k \in DOMAIN lines : lines[k] = << >> })

\* C4: getDiff(previous, current) equals the positional reference: per index,
\* one unchanged record when the two lines are equal (absent = empty string),
\* otherwise removed (previous line present and non-empty) then added
\* (current line present and non-empty).
C4_Positional == diffShown => diffLines = RefDiff(compareText, selectedText)

C4_Witness ==
  /\ diffShown
  /\ Len(RefLines(compareText)) # Len(RefLines(selectedText))
  /\ TypesOf(diffLines) = {"unchanged", "removed", "added"}

\* C5: every non-empty line of A is represented, in order, by exactly one
\* removed or unchanged record and every non-empty line of B by exactly one
\* added or unchanged record.
C5_Totality ==
  diffShown =>
    /\ TextsOf(SelectSeq(diffLines, OfOld)) = SelectSeq(RefLines(compareText), NonEmpty)
    /\ TextsOf(SelectSeq(diffLines, OfNew)) = SelectSeq(RefLines(selectedText), NonEmpty)

C5_Witness ==
  /\ diffShown
  /\ compareText # selectedText
  /\ Len(SelectSeq(RefLines(compareText), NonEmpty)) >= 2
  /\ BlankCount(RefLines(selectedText)) >= 1
  /\ "unchanged" \in TypesOf(diffLines)

\* C6: getDiff(A, A) holds only unchanged records, one per line of A in line
\* order, each with the text of its line.
C6_Identity ==
  (diffShown /\ compareText = selectedText) =>
    diffLines = [k \in DOMAIN RefLines(compareText) |->
                   [type |-> "unchanged", text |-> RefLines(compareText)[k]]]

C6_Witness ==
  /\ diffShown
  /\ compareText = selectedText
  /\ Len(RefLines(compareText)) >= 3
  /\ BlankCount(RefLines(compareText)) >= 1
  /\ Len(diffLines) = Len(RefLines(compareText))

\* C7 (as claimed): getDiff("", B) holds only added records, one for every
\* non-empty line of B.
C7_OnlyAdded ==
  (diffShown /\ compareText = << >>) =>
    /\ TypesOf(diffLines) \subseteq {"added"}
    /\ TextsOf(diffLines) = SelectSeq(RefLines(selectedText), NonEmpty)

\* C7 (amended): getDiff("", B) holds no removed record and exactly one
\* record per line of B, in line order: an added record for a non-empty
\* line and an unchanged empty-string record for a blank line.
C7_AddedOrBlank ==
  (diffShown /\ compareText = << >>) =>
    /\ "removed" \notin TypesOf(diffLines)
    /\ TextsOf(SelectSeq(diffLines, IsAdded)) = SelectSeq(RefLines(selectedText), NonEmpty)
    /\ diffLines = [k \in DOMAIN RefLines(selectedText) |->
                      IF RefLines(selectedText)[k] = << >>
                      THEN [type |-> "unchanged", text |-> << >>]
                      ELSE [type |-> "added", text |-> RefLines(selectedText)[k]]]

C7_Witness ==
  /\ diffShown
  /\ compareText = << >>
  /\ BlankCount(RefLines(selectedText)) >= 1
  /\ TypesOf(diffLines) = {"added", "unchanged"}

\* C8: no blank line is dropped: the output holds an empty-string record for
\* every blank line of the current text and for every blank line of the
\* previous text.
C8_BlankLinesKept ==
  diffShown =>
    LET empties == Len(SelectSeq(TextsOf(diffLines), LAMBDA t : t = << >>))
    IN /\ empties >= BlankCount(RefLines(selectedText))
       /\ empties >= BlankCount(RefLines(compareText))

(***************************************************************************)
(* Properties of the cache                                                 *)
(***************************************************************************)
UpdatePage(x) == [endpoint |-> "updatePage", arg |-> x]

TaggedPage(q, x) == Tag("Page", x) \in providesTags(q)

TaggedPages(q) == Tag("Pages", NoId) \in providesTags(q)

TaggedOnlyOtherPage(q, x) ==
  providesTags(q) \subseteq { Tag("Page", y) : y \in PageArgs \ {x} }

\* the step is the arrival of updatePage's success for page x, and it leaves
\* no result tagged Page:x or Pages fresh, and no other page's result changed
UpdateStepInvalidates(x) ==
  MutationFulfilled(UpdatePage(x)) =>
    \A q \in DOMAIN cache :
      /\ (HasResult(cache[q]) /\ (TaggedPage(q, x) \/ TaggedPages(q))) =>
           /\ q \in DOMAIN cache'
           /\ cache'[q].status \in {"stale", "refetching"}
           /\ cache[q].subscribed => cache'[q].status = "refetching"
      /\ TaggedOnlyOtherPage(q, x) =>
           (q \in DOMAIN cache' /\ cache'[q] = cache[q])

\* the step is the next access of a stale result, and it starts its refetch
StaleRefetchedOnAccess(q) ==
  (cache[q].status = "stale" /\ Subscribe(q)) =>
    cache'[q].status = "refetching"

\* C9: when updatePage for page X succeeds, every cached result tagged
\* Page:X (page, history, collaborators, likes of X) and every cached result
\* tagged Pages becomes stale (refetching at once when subscribed, refetched
\* at its next subscription otherwise), and a cached result tagged only
\* Page:Y for another page Y is left as it was.
C9_UpdateInvalidates ==
  [][ /\ \A x \in PageArgs : UpdateStepInvalidates(x)
      /\ \A q \in DOMAIN cache : StaleRefetchedOnAccess(q) ]_vars

C9_Witness ==
  \E x, y \in PageArgs :
    /\ x # y
    /\ {QueryKey("getPage", x), QueryKey("getPage", y)} \subseteq DOMAIN cache
    /\ cache[QueryKey("getPage", x)] = Entry("stale", FALSE)
    /\ cache[QueryKey("getPage", y)] = Entry("fresh", FALSE)

(***************************************************************************)
(* Properties of the session                                               *)
(***************************************************************************)
NoCredential == token = NoId /\ stored = NoId

\* C10: the handler of a 401 response ends with user, token and persisted
\* token all null; from then on the session holds no credential until a
\* login succeeds, and a request issued meanwhile carries no authorization
\* header.
C10_UnauthorizedClears ==
  [][ /\ \A a \in Auths :
           Respond401(a) => (stored' = NoId /\ requests'.clearing = requests.clearing + 1)
      /\ Clear401 => (user' = NoId /\ token' = NoId /\ stored' = NoId)
      /\ (NoCredential /\ ~(\E t \in Tokens : LoginFulfilled(t))) => NoCredential'
      /\ (NoCredential /\ IssueRequest) =>
           /\ requests'.sent[NoId] = requests.sent[NoId] + 1
           /\ \A t \in Tokens : requests'.sent[t] = requests.sent[t] ]_vars

\* the handler of a 401 has finished and its result is the last one returned,
\* the session is empty, and a request without a header is in flight
C10_Witness ==
  /\ user = NoId /\ token = NoId /\ stored = NoId
  /\ requests.returned = "401"
  /\ requests.clearing = 0
  /\ requests.sent[NoId] > 0
  /\ \A t \in Tokens : requests.sent[t] = 0

(***************************************************************************)
(* Properties of the request headers                                       *)
(***************************************************************************)
\* the token the header is to carry: the session store's when it is set,
\* otherwise the persisted one
BearerToken == IF token # NoId THEN token ELSE stored

\* C11: every request the query layer issues carries the session store's
\* token when it is set and otherwise the persisted token, and carries no
\* header exactly when both are absent.
C11_BearerHeader ==
  [][ IssueRequest =>
        /\ requests'.sent = [requests.sent EXCEPT ![BearerToken] = @ + 1]
        /\ (requests'.sent[NoId] > requests.sent[NoId])
             <=> (token = NoId /\ stored = NoId) ]_vars

\* requests are in flight with the session token while another token is
\* persisted, or with the persisted token while the session holds none
C11_Witness ==
  \/ /\ token # NoId /\ stored # NoId /\ token # stored
     /\ requests.sent[token] = MaxInFlight
  \/ /\ token = NoId /\ stored # NoId
     /\ requests.sent[stored] = MaxInFlight

(***************************************************************************)
(* Properties of the login transitions                                     *)
(***************************************************************************)
Unauthenticated == user = NoId /\ token = NoId /\ stored = NoId

\* C12: a login is submitted from an unauthenticated session and makes it
\* pending (loading set, error cleared); while it is pending the session
\* stays unauthenticated; its success stores the returned token in the
\* session and persists it; its failure ends the pending state with the
\* error recorded, leaves user, token and persisted token as they were, and
\* so leaves the session unauthenticated.
C12_LoginTransitions ==
  /\ [](loginInFlight => (loading /\ Unauthenticated))
  /\ [][ /\ LoginSubmit =>
              /\ Unauthenticated
              /\ loading' /\ ~error' /\ loginInFlight'
              /\ UNCHANGED <<user, token, stored>>
         /\ \A t \in Tokens :
              LoginFulfilled(t) =>
                (token' = t /\ stored' = t /\ ~loginInFlight' /\ ~Unauthenticated')
         /\ LoginRejected =>
              /\ ~loading' /\ error' /\ ~loginInFlight'
              /\ UNCHANGED <<user, token, stored>>
              /\ Unauthenticated' ]_vars

\* a login has failed: the error is recorded, nothing is pending and the
\* session is unauthenticated
C12_Witness ==
  /\ error /\ ~loading /\ ~loginInFlight
  /\ Unauthenticated

\* a login has succeeded: the token is in the session and persisted
C12_WitnessSuccess ==
  /\ ~loginInFlight /\ ~error
  /\ \E t \in Tokens : token = t /\ stored = t /\ meInFlight[<<t, "login">>] = 1

(***************************************************************************)
(* Properties of the start-up effect                                       *)
(***************************************************************************)
\* the effect is due and will dispatch fetchCurrentUser
EffectCond == effectDue /\ Truthy(stored) /\ user = NoId

EffectRequests == SumOver(meInFlight, Tokens \X {"effect"})

\* C13: with a persisted token and no user at process start the effect
\* dispatches fetchCurrentUser, one request carrying that token, and after
\* that it never dispatches again; a rejected fetchCurrentUser clears the
\* session token and the persisted token; every other fetchCurrentUser is
\* the one a successful login dispatches.
C13_ResolveOnce ==
  /\ [](EffectCond => (token = stored /\ ~loading /\ Total(meInFlight) = 0))
  /\ EffectCond ~> (EffectRequests = 1 /\ ~EffectCond)
  /\ [][ /\ ~EffectCond => ~EffectCond'
         /\ (EffectCond /\ RunEffect) =>
              (meInFlight' = [meInFlight EXCEPT ![<<stored, "effect">>] = 1] /\ loading')
         /\ EffectRequests' > EffectRequests => (EffectCond /\ RunEffect)
         /\ \A k \in MeKinds : MeRejected(k) => (token' = NoId /\ stored' = NoId)
         /\ Total(meInFlight') > Total(meInFlight) =>
              \/ EffectCond /\ RunEffect
              \/ \E t \in Tokens : LoginFulfilled(t) ]_vars

\* the request of the start-up effect is in flight with the persisted token
C13_Witness ==
  /\ ~effectDue /\ loading /\ user = NoId
  /\ \E t \in Tokens : token = t /\ stored = t /\ meInFlight[<<t, "effect">>] = 1
  /\ Total(meInFlight) = 1

(***************************************************************************)
(* Properties of the refetch of stale results                              *)
(***************************************************************************)
StatusOf(c, q) == IF q \in DOMAIN c THEN c[q].status ELSE "none"

FetchInFlight == \E q \in DOMAIN cache : cache[q].status \in {"pending", "refetching"}

\* the step is the success of mutation m: each fresh result it invalidates
\* is refetching at once when subscribed and stale otherwise
MarkedOnSuccess(m) ==
  MutationFulfilled(m) =>
    \A q \in DOMAIN cache :
      (cache[q].status = "fresh" /\ Invalidated(q, invalidatesTags(m))) =>
        cache'[q] = Entry(IF cache[q].subscribed THEN "refetching" ELSE "stale",
                          cache[q].subscribed)

\* a stale result leaves that status only by being removed or by gaining a
\* subscriber, which starts its refetch
StaleUntilAccess(q) ==
  (StatusOf(cache, q) = "stale" /\ StatusOf(cache', q) \notin {"stale", "none"}) =>
    (Subscribe(q) /\ cache'[q] = Entry("refetching", TRUE))

C15_FailureKeepsCache ==
  [][ \A m \in Mutations : MutationRejected(m) => cache' = cache ]_vars

(***************************************************************************)
(* Properties of concurrent updates                                        *)
(***************************************************************************)
Settled ==
  /\ WritesInFlight = 0
  /\ pageQuery.fetch = "none"

C16_WitnessSettled ==
  /\ Settled
  /\ activePage.id = editedPage /\ activePage.rev < serverRev
  /\ pageQuery.data # NoId /\ pageQuery.data < serverRev

(***************************************************************************)
(* Properties of addCollaborator and createPage                            *)
(***************************************************************************)
AddCollaborator(x) == [endpoint |-> "addCollaborator", arg |-> x]

CreatePage == [endpoint |-> "createPage", arg |-> NoId]

\* the result is left stale by the step: refetching at once when it has a
\* subscriber, and never fresh
LeftStale(q) ==
  /\ q \in DOMAIN cache'
  /\ cache'[q].status \in {"stale", "refetching"}
  /\ cache'[q].subscribed = cache[q].subscribed
  /\ cache[q].subscribed => cache'[q].status = "refetching"

\* C17: when addCollaborator for page X succeeds, the cached results tagged
\* Page:X (page, history, collaborators and likes of X) are left stale, and
\* every other cached result (the page lists, the search, the results of
\* another page Y) is left exactly as it was.
C17_CollaboratorInvalidates ==
  [][ \A x \in PageArgs :
        MutationFulfilled(AddCollaborator(x)) =>
          \A q \in DOMAIN cache :
            /\ (HasResult(cache[q]) /\ TaggedPage(q, x)) => LeftStale(q)
            /\ ~TaggedPage(q, x) => (q \in DOMAIN cache' /\ cache'[q] = cache[q]) ]_vars

\* the collaborators of a page are being refetched for their subscriber next
\* to a page list that stayed fresh
C17_Witness ==
  \E x \in PageArgs : \E l \in ListEndpoints :
    /\ {QueryKey("getCollaborators", x), QueryKey(l, NoId)} \subseteq DOMAIN cache
    /\ cache[QueryKey("getCollaborators", x)] = Entry("refetching", TRUE)
    /\ cache[QueryKey(l, NoId)] = Entry("fresh", TRUE)

NoDuplicates(list) == \A i, j \in DOMAIN list : list[i] = list[j] => i = j

WellKept(list) == Len(list) <= RecentCap /\ NoDuplicates(list)

\* the step wrote the list under key k
Written(k) == recent'[k] # recent[k]

C19_WitnessGuest ==
  /\ user = NoId
  /\ location # NoId
  /\ viewed = location
  /\ \E u \in Tokens : recent[u] = FullList

(***************************************************************************)
(* Properties of the collaborators view                                    *)
(***************************************************************************)
\* C20: no addCollaborator mutation carries the id of the page's author as
\* user_id: the author is not among the options on offer, is not the
\* selection, and is not among the ids submitted, which are all ids of
\* options that were on offer.
C20_AuthorNeverSubmitted ==
  /\ author \notin submitted
  /\ submitted \subseteq users \ {author, viewer.id}
  /\ canManageCollaborators => author \notin Options
  /\ author # NoId => selectedUserId # toString(author)

\* an administrator has submitted a user with an id of two digits while the
\* author is in the list of users the server returned
C20_Witness ==
  /\ viewer.role = "admin"
  /\ viewer.id # author
  /\ author \in users
  /\ \E u \in submitted : u >= 10

(***************************************************************************)
(* Properties of deletePage, likePage and unlikePage                       *)
(***************************************************************************)
DeletePage(x) == [endpoint |-> "deletePage", arg |-> x]

\* C21: when deletePage for page X succeeds, no cached result of that page
\* (the page, its history, collaborators or likes) stays fresh and every
\* cached page list is left stale.
C21_DeleteCoherent ==
  [][ \A x \in PageArgs :
        MutationFulfilled(DeletePage(x)) =>
          \A q \in DOMAIN cache :
            /\ (HasResult(cache[q]) /\ TaggedPage(q, x)) => cache'[q].status # "fresh"
            /\ (HasResult(cache[q]) /\ q.endpoint \in ListEndpoints) => LeftStale(q) ]_vars

LikePage(x) == [endpoint |-> "likePage", arg |-> x]

UnlikePage(x) == [endpoint |-> "unlikePage", arg |-> x]

\* the results that carry the like data of page x: its likes, the page
\* itself, and the page lists, whose records carry like_count
CarriesLikes(q, x) ==
  \/ q = QueryKey("getPageLikes", x)
  \/ q = QueryKey("getPage", x)
  \/ q.endpoint \in ListEndpoints

\* C22: when likePage or unlikePage for page X succeeds, every cached result
\* carrying that page's like data (getPageLikes(X), getPage(X) and the cached
\* page lists) is left stale.
C22_LikeInvalidates ==
  [][ \A x \in PageArgs :
        (MutationFulfilled(LikePage(x)) \/ MutationFulfilled(UnlikePage(x))) =>
          \A q \in DOMAIN cache :
            (HasResult(cache[q]) /\ CarriesLikes(q, x)) => LeftStale(q) ]_vars

(***************************************************************************)
(* Properties of the two identifiers of a page                             *)
(***************************************************************************)
\* C23: a page's numeric id and its slug name one cached resource: when a
\* mutation on a page succeeds, every cached result of that page (the page,
\* its history, collaborators and likes) is left stale, whichever of the two
\* identifiers the mutation and the query were issued with.
C23_SlugSameResource ==
  [][ \A m \in SlugMutations :
        MutationFulfilled(m) =>
          \A q \in DOMAIN cache :
            (HasResult(cache[q]) /\ PageOf(q.arg) = PageOf(m.arg)) => LeftStale(q) ]_vars

(***************************************************************************)
(* Properties of the views under partial data                              *)
(***************************************************************************)
\* C24: in whatever order the queries of a view complete, with success or
\* with failure, the view renders: the PageViewer shows the page as soon as
\* getPage has data, whatever the state of the collaborators and likes
\* queries, and the PageCollaborators shows its permission message, its
\* loading indicator or its list, never failing on an absent result.
C24_ViewsRender ==
  /\ pv.view \in {"loading", "not-found", "content"}
  /\ Has(pv.getPage) => pv.view = "content"
  /\ pc.view \in {"permission", "loading", "list"}

(***************************************************************************)
(* Properties of the order of siblings                                     *)
(***************************************************************************)
\* the nodes a list refers to stand in the order of their records in the
\* input (a record's title is its position in the input)
InInputOrder(refs, map) ==
  \A j, k \in DOMAIN refs : j < k => map[refs[j]].title < map[refs[k]].title

SiblingsInInputOrder ==
  /\ InInputOrder(treeData.roots, treeData.map)
  /\ \A n \in DOMAIN treeData.map : InInputOrder(treeData.map[n].children, treeData.map)

\* C25 (as claimed): for every flat list, the root list and every node's
\* children list returned by buildTreeFromFlat hold their records in the
\* order in which these occur in the input.
C25_InputOrder == treeBuilt => SiblingsInInputOrder

\* C25 (amended): for every flat list whose ids are pairwise distinct, the
\* root list and every node's children list returned by buildTreeFromFlat
\* hold their records in the order in which these occur in the input.
C25_InputOrderUnique == (treeBuilt /\ UniqueIds(flatPages)) => SiblingsInInputOrder

\* a node has two children whose ids run against their order in the input
C25_Witness ==
  /\ treeBuilt
  /\ UniqueIds(flatPages)
  /\ \E n \in DOMAIN treeData.map :
       /\ Len(treeData.map[n].children) = 2
       /\ treeData.map[n].children[1] > treeData.map[n].children[2]

\* two roots whose ids run against their order in the input
C25_WitnessRoots ==
  /\ treeBuilt
  /\ UniqueIds(flatPages)
  /\ Len(treeData.roots) >= 2
  /\ treeData.roots[1] > treeData.roots[2]

(***************************************************************************)
(* Properties of the error kinds of the query layer                        *)
(***************************************************************************)
Rejections == {"403", "404", "422"}

SessionKept == user' = user /\ token' = token /\ stored' = stored

\* C26: the result the query layer returns has status FETCH_ERROR exactly
\* when the request got no response (the server could not be reached, fetch
\* threw); a rejection by the application (forbidden, not found, validation
\* error) is returned with its HTTP status, never as FETCH_ERROR; and neither
\* of the two changes the session's user, token or persisted token.
C26_ErrorKinds ==
  [][ \A a \in Auths : \A status \in OtherStatuses :
        RespondOther(a, status) =>
          /\ requests'.returned = "FETCH_ERROR" <=> status = "NO_RESPONSE"
          /\ status \in Rejections => requests'.returned = status
          /\ SessionKept ]_vars

\* with a user loaded, a rejected request and an unanswered one have both
\* returned and the session is as it was
C26_Witness ==
  /\ user # NoId /\ token # NoId /\ stored # NoId
  /\ requests.returned = "FETCH_ERROR"
  /\ requests.sent[token] > 0

(***************************************************************************)
(* Properties of the session's invariants                                  *)
(***************************************************************************)
\* C27: in every reachable state, the states between the steps of the 401
\* handler included, the token of the session store equals the persisted
\* token (both absent or both the same value), whatever the interleaving of
\* login, logout, current-user resolution and 401 handling.
C27_TokenPersisted == token = stored

\* C28: a session that holds a user holds a token, whatever the interleaving
\* of an in-flight current-user request with logout and with the session
\* clear of a 401.
C28_UserHasToken == user # NoId => token # NoId

(***************************************************************************)
(* Properties of the session's effect on the cache                         *)
(***************************************************************************)
\* the steps that end the session: the logout of the header and the two
\* steps of the 401 handler
SessionEnds == Logout \/ Clear401 \/ (\E a \in Auths : Respond401(a))

ListedKeys == { q \in DOMAIN cache : Tag("Pages", NoId) \in providesTags(q) }

\* C29: ending the session, by the logout of the header or by the session
\* clear of a 401, changes the session's user, token and persisted token and
\* nothing else of the session or of the cache: every cached result stays,
\* with the status it had. A login whose current-user request is fulfilled
\* invalidates the Pages tag: no result that provides it stays fresh, the
\* results of single pages are left as they were.
C29_SessionEndKeepsCache ==
  /\ [][ SessionEnds =>
           /\ cache' = cache
           /\ UNCHANGED <<loading, error, loginInFlight, meInFlight>> ]_vars
  /\ [][ \A k \in MeKinds :
           (k[2] = "login" /\ MeFulfilled(k)) =>
             /\ DOMAIN cache' = DOMAIN cache
             /\ \A q \in DOMAIN cache :
                  IF q \in ListedKeys
                  THEN cache'[q].status # "fresh"
                  ELSE cache'[q] = cache[q] ]_vars

\* a session was ended while the cache held a fresh page list and a fresh page
C29_Witness ==
  /\ user = NoId /\ token = NoId /\ stored = NoId
  /\ requests.returned = "401"
  /\ \A q \in SessionKeys : q \in DOMAIN cache /\ cache[q].status = "fresh"

\* a login has resolved its user and the page list it found fresh is refetched
C29_WitnessLogin ==
  /\ user # NoId
  /\ QueryKey("getPages", NoId) \in DOMAIN cache
  /\ cache[QueryKey("getPages", NoId)].status = "refetching"
  /\ QueryKey("getPage", 1) \in DOMAIN cache
  /\ cache[QueryKey("getPage", 1)].status = "fresh"

(***************************************************************************)
(* Properties of the 401 handler under a change of credential              *)
(***************************************************************************)
\* a request is in flight that was sent with credential a, and the session
\* holds another credential, stored by a later login
Outdated(a) == requests.sent[a] > 0 /\ token # NoId /\ token # a

\* C30: the session clear of a 401 does not look at the credential the
\* rejected request carried. While a request sent with an old credential is
\* in flight and a newer login has stored its token, a 401 for that request
\* is handled as any other: the persisted token is removed, and the
\* handler's second step leaves user, token and persisted token all absent,
\* so the newer credential is discarded.
C30_ClearIgnoresCredential ==
  /\ [](\A a \in Auths : Outdated(a) => ENABLED (Respond401(a) /\ requests'.clearing > 0))
  /\ [][ \A a \in Auths : (Outdated(a) /\ Respond401(a)) =>
           (stored' = NoId /\ requests'.clearing > 0) ]_vars
  /\ [](requests.clearing > 0 => ENABLED Clear401)
  /\ [][ Clear401 => (user' = NoId /\ token' = NoId /\ stored' = NoId) ]_vars

\* the login that stored credential 2 still awaits its user, a request sent
\* with credential 1 is still in flight, and a 401 has cleared the session
C30_Witness ==
  /\ requests.returned = "401"
  /\ requests.clearing = 0
  /\ user = NoId /\ token = NoId /\ stored = NoId
  /\ meInFlight[<<2, "login">>] > 0
  /\ requests.sent[1] > 0 /\ requests.sent[2] = 0

====
